---- MODULE Spec2Model ----
(***************************************************************************)
(* A model of the fair-scraper extraction pipeline.                        *)
(*                                                                         *)
(*   SpecFair : one POST /scrape request handled by main.py's scrape_fair  *)
(*              (network sniffing, Algolia pagination, DOM fallback).      *)
(*   SpecAny  : one call of scrapers.py's scrape_any (Easyfairs, static    *)
(*              HTML, Playwright, tried in that order).                    *)
(*                                                                         *)
(* Conventions.  Python's None / "" / 0 are all falsy where the code tests *)
(* truthiness; a missing string is "", a missing container id is 0 (the    *)
(* code never stores 0: find_container_id's result is kept only `if cid`). *)
(* An optional integer that the code tests with isinstance (nbPages) is a  *)
(* sequence: <<>> when absent, <<n>> when present.  A joined text          *)
(* (", ".join(...)) is the sequence of its parts; <<>> stands for "".      *)
(***************************************************************************)
EXTENDS Integers, Sequences, FiniteSets, TLC

VARIABLES
    \* ---- main.py: scrape_fair ----
    request,      \* the ScrapeRequest being served
    pc,           \* position of scrape_fair
    found,        \* sniff_algolia_from_url's `found` dict
    nObserved,    \* on_response callbacks run while the sniffing page is open
    page,         \* scrape_fair's `page` counter
    exhibitors,   \* scrape_fair's `exhibitors` list
    queries,      \* every POST issued by algolia_post_queries, in order
    responses,    \* every answer received for those POSTs, in order
    stop,         \* why the pagination loop was left ("" while it runs)
    outcome,      \* what scrape_fair returned or raised ("" status while running)
    cards,        \* the elements the DOM fallback read (query_selector_all)
    \* ---- scrapers.py: scrape_any ----
    url,          \* the event URL given to scrape_any
    cfg,          \* the ScrapeConfig
    apc,          \* position of scrape_any
    calls,        \* the drivers invoked so far, in order
    res,          \* the rows each invoked driver returned, in call order
    metas,        \* the meta each invoked driver returned, in call order
    fetches,      \* the calls of fetch_easyfairs_stands_by_countries, in order
    static_page,  \* what requests.get gave scrape_static_html
    elements,     \* the <a> elements scrape_with_playwright read
    ret,          \* what scrape_any returned or raised
    \* ---- both ----
    browsers      \* the headless browsers launched so far, with the call that owns each

fairVars == <<request, pc, found, nObserved, page, exhibitors, queries, responses, stop, outcome,
              cards>>
anyVars == <<url, cfg, apc, calls, res, metas, fetches, static_page, elements, ret>>
vars == <<request, pc, found, nObserved, page, exhibitors, queries, responses, stop, outcome,
          cards, url, cfg, apc, calls, res, metas, fetches, static_page, elements, ret,
          browsers>>

\* ------------------------------------------------------------------ bounds
MaxPages == 3
MaxExhibitors == 2
MaxHits == 2
MaxObserved == 2
MaxCards == 2
MaxRows == 2
MaxAnchors == 2
MaxElements == 2

\* ------------------------------------------------------------------ helpers
Range(s) == {s[i] : i \in 1..Len(s)}

SeqsUpTo(S, n) == UNION {[1..k -> S] : k \in 0..n}

Min(a, b) == IF a <= b THEN a ELSE b

\* mutant: the text is not cut
TruncateNone(len, n) == len

\* s[:n] of a text known only by its length
Truncate(len, n) == Min(len, n)

\* s[:n] of a list
Take(s, n) == SubSeq(s, 1, Min(Len(s), n))

\* ------------------------------------------------------------------ manufacturer heuristic
MANUFACTURER_KEYWORDS ==
    <<"fabricante", "manufacturer", "manufacturing", "fabricación", "producción", "oem",
      "diseñamos", "diseña", "design", "desarrolla", "produce", "producimos", "fabrica",
      "manufactures">>

NON_MANUFACTURER_HINTS ==
    <<"distribuidor", "distribución", "distributor", "integrador", "integración",
      "integrator", "consultor", "consultoría", "service", "services", "servicios">>

\* A text is the set of its lower-cased words; re.search(r"\bw\b", t) is w \in t.
is_manufacturer(text) ==
    LET positives == SelectSeq(MANUFACTURER_KEYWORDS, LAMBDA w : w \in text)
        negatives == SelectSeq(NON_MANUFACTURER_HINTS, LAMBDA w : w \in text)
    IN  IF positives # <<>>
        THEN [manu |-> TRUE,
              evidence |-> Take(positives, 3),
              confidence |-> IF Len(negatives) = 0 THEN "Alta" ELSE "Media"]
        ELSE [manu |-> FALSE,
              evidence |-> <<"Sin evidencia textual explícita">>,
              confidence |-> "Baja"]

\* ------------------------------------------------------------------ upstream hits
\* The hits an upstream may return: the upstream's object identifier ("" when the
\* hit has none; scrape_fair never reads it) and the fields scrape_fair reads (name,
\* country, description, categories, products).  description is given by its words;
\* the names, categories and products hold no keyword of the heuristic and are
\* shorter than the [:200] and [:400] cuts.
Hits ==
    { [objectID |-> "obj-1", name |-> "MECALUX S.A", country |-> "Spain", description |-> {"fabricante"},
       categories |-> <<"Sistemas de Almacenamiento">>, products |-> <<"Estanterias">>],
      [objectID |-> "obj-2", name |-> "Distrib SL", country |-> "France", description |-> {"distribuidor"},
       categories |-> <<>>, products |-> <<>>],
      [objectID |-> "", name |-> "Anon", country |-> "", description |-> {"manufacturer", "services"},
       categories |-> <<"">>, products |-> <<>>] }

NonEmpty(names) == SelectSeq(names, LAMBDA x : x # "")

full_text(h) ==
    {w \in {h.name, h.country} : w # ""} \cup h.description
        \cup Range(NonEmpty(h.categories)) \cup Range(NonEmpty(h.products))

\* the dict appended to `exhibitors` for hit h
AlgoliaRow(h) ==
    LET m == is_manufacturer(full_text(h))
    IN  [empresa |-> h.name,
         pais |-> IF h.country # "" THEN h.country ELSE "No confirmado",
         que_fabrican |-> NonEmpty(h.products),
         categoria |-> NonEmpty(h.categories),
         evidencia_fabricante |-> IF m.manu THEN m.evidence ELSE <<"Fabricante no confirmado">>,
         confianza |-> IF m.manu THEN m.confidence ELSE "Baja",
         source |-> "algolia"]

\* mutant: no item is skipped for want of manufacturer evidence
SkipNever(req, manu) == FALSE

\* if request.manufacturers_only and not manu: continue
SkipNonManufacturer(req, manu) == req.manufacturers_only /\ ~manu

\* is_manufacturer(full_text) and the row, per hit (each computed once)
HitManu == [h \in Hits |-> is_manufacturer(full_text(h)).manu]

HitRow == [h \in Hits |-> AlgoliaRow(h)]

\* the `for h in hits` loop: rows after the hits of one page, starting from `exh`
RECURSIVE ProcessHits(_, _, _)
ProcessHits(exh, hits, req) ==
    IF hits = <<>> THEN exh
    ELSE LET h == Head(hits)
         IN  IF SkipNonManufacturer(req, HitManu[h])
             THEN ProcessHits(exh, Tail(hits), req)
             ELSE LET exh2 == Append(exh, HitRow[h])
                  IN  IF Len(exh2) >= req.max_exhibitors
                      THEN exh2
                      ELSE ProcessHits(exh2, Tail(hits), req)

\* ------------------------------------------------------------------ sniffing
\* Responses the sniffing page may observe.  `algolia` : the URL matches
\* ("algolia" in rurl.lower()) or ALGOLIA_QUERIES_RE; `json` : the content-type is
\* application/json and response.json() succeeds; payload : the "results" blocks,
\* each with the container id found in its params (0: none), its hits' first
\* _index ("" : none) and its "index" ("" : none).
SniffResponses ==
    { [id |-> "r1", algolia |-> TRUE, app_id |-> "APP1", api_key |-> "KEY1", json |-> TRUE,
       payload |-> <<[cid |-> 2653, hit_index |-> "stands_1764744851", index |-> "stands"]>>],
      [id |-> "r2", algolia |-> TRUE, app_id |-> "APP2", api_key |-> "KEY2", json |-> TRUE,
       payload |-> <<[cid |-> 0, hit_index |-> "", index |-> "visitors"]>>],
      [id |-> "r3", algolia |-> TRUE, app_id |-> "APP1", api_key |-> "", json |-> FALSE,
       payload |-> <<>>],
      [id |-> "r4", algolia |-> FALSE, app_id |-> "APP3", api_key |-> "KEY3", json |-> TRUE,
       payload |-> <<[cid |-> 99, hit_index |-> "", index |-> "news"]>>] }

parse_algolia_headers(r) == [app_id |-> r.app_id, api_key |-> r.api_key]

\* first results block whose params carry a container id, else None (0)
RECURSIVE find_container_id(_)
find_container_id(results) ==
    IF results = <<>> THEN 0
    ELSE IF Head(results).cid # 0 THEN Head(results).cid
    ELSE find_container_id(Tail(results))

\* first block whose hits[0]._index is set, else the first block with "index"
find_index_name_from_hits(results) ==
    LET withHit == SelectSeq(results, LAMBDA b : b.hit_index # "")
        withIdx == SelectSeq(results, LAMBDA b : b.index # "")
    IN  IF withHit # <<>> THEN Head(withHit).hit_index
        ELSE IF withIdx # <<>> THEN Head(withIdx).index
        ELSE ""

NoneFound == [app_id |-> "", api_key |-> "", index_name |-> "", container_id |-> 0]

\* `found` after the on_response callback has handled response r
on_response(f, r) ==
    IF ~r.algolia THEN f
    ELSE LET h == parse_algolia_headers(r)
             f1 == IF h.app_id # "" /\ h.api_key # ""
                   THEN [f EXCEPT !.app_id = h.app_id, !.api_key = h.api_key]
                   ELSE f
             cid == find_container_id(r.payload)
             f2 == IF r.json /\ f1.container_id = 0 /\ cid # 0
                   THEN [f1 EXCEPT !.container_id = cid]
                   ELSE f1
             idx == find_index_name_from_hits(r.payload)
             f3 == IF r.json /\ f2.index_name = "" /\ idx # ""
                   THEN [f2 EXCEPT !.index_name = idx]
                   ELSE f2
         IN  f3

\* ------------------------------------------------------------------ requests and results
RequestCountries == {<<>>, <<"Spain", "Portugal">>}

Requests ==
    [max_pages : -1..MaxPages, max_exhibitors : 0..MaxExhibitors,
     manufacturers_only : BOOLEAN, countries : RequestCountries]

Running == [status |-> "", mode |-> "", code |-> 0, upstream_status |-> 0,
            excerpt_len |-> 0, results |-> <<>>]

\* return {"status": "ok", "mode": mode, "total_detected": len(rows), "results": rows}
Ok(mode, rows) == [Running EXCEPT !.status = "ok", !.mode = mode, !.results = rows]

\* raise HTTPException(status_code=code, ...); an error carries no rows
Raised(code, upstream, excerpt) ==
    [Running EXCEPT !.status = "error", !.code = code, !.upstream_status = upstream,
                    !.excerpt_len = excerpt]

\* ------------------------------------------------------------------ algolia_post_queries
BodyLimit == 500

HttpErrorStatuses == {403, 404, 429, 500}

BodyLens == {BodyLimit - 1, BodyLimit + 1}

NbPagesVals == {<<>>} \cup {<<n>> : n \in 0..MaxPages}

\* what the upstream may answer to one POST
UpstreamResponses ==
    {[kind |-> "neterr", status |-> 0, len |-> 0, results |-> <<>>]}
    \cup {[kind |-> "http", status |-> st, len |-> n, results |-> <<>>] :
              st \in HttpErrorStatuses, n \in BodyLens}
    \cup {[kind |-> "badjson", status |-> 200, len |-> 0, results |-> <<>>]}
    \cup {[kind |-> "json", status |-> 200, len |-> 0, results |-> <<>>]}
    \cup {[kind |-> "json", status |-> 200, len |-> 0,
           results |-> <<[hits |-> hs, nbPages |-> nb]>>] :
              hs \in SeqsUpTo(Hits, MaxHits), nb \in NbPagesVals}

\* the POST body algolia_post_queries builds for page p
QueryFor(f, req, p) ==
    [page |-> p, app_id |-> f.app_id, api_key |-> f.api_key, indexName |-> f.index_name,
     filters |-> IF f.container_id # 0 THEN <<f.container_id>> ELSE <<>>,
     facetFilters |-> req.countries]

\* what is kept of an answer: its kind, its status,
\* its body length, and of a JSON
\* answer whether it had a results block, whether the block had hits, and the
\* nbPages it reported
Summary(r) ==
    [kind |-> r.kind, status |-> r.status, len |-> r.len,
     block |-> r.results # <<>>,
     hits |-> r.results # <<>> /\ r.results[1].hits # <<>>,
     nbPages |-> IF r.results # <<>> THEN r.results[1].nbPages ELSE <<>>]

\* raise HTTPException(502, f"Algolia error {status}: {text[:500]}")
AlgoliaError(r) == Raised(502, r.status, Truncate(r.len, BodyLimit))

\* mutant: the exception is swallowed and an empty "ok" result is returned
InternalErrorSwallowed == Ok("algolia", <<>>)

\* except Exception as e: raise HTTPException(status_code=500, detail=str(e))
InternalError == Raised(500, 0, 0)

\* ------------------------------------------------------------------ DOM fallback
\* Elements page.query_selector_all may return.  text : the stripped inner text;
\* len : its length; first_line : its first line; words : its lower-cased words;
\* mentions : the lower-cased country names it contains; raises : inner_text() fails.
Cards ==
    { [text |-> "Acme fabricante de estanterias Spain", len |-> 36, first_line |-> "Acme",
       words |-> {"acme", "fabricante", "spain"}, mentions |-> {"spain"}, raises |-> FALSE],
      [text |-> "Beta distribuidor Portugal", len |-> 26, first_line |-> "Beta",
       words |-> {"beta", "distribuidor", "portugal"}, mentions |-> {"portugal"},
       raises |-> FALSE],
      [text |-> "Home", len |-> 4, first_line |-> "Home",
       words |-> {"home"}, mentions |-> {}, raises |-> FALSE],
      [text |-> "", len |-> 0, first_line |-> "",
       words |-> {}, mentions |-> {}, raises |-> TRUE] }

MinCardLen == 10

\* str.lower() on the country names a request may carry
Lower(c) ==
    CASE c = "Spain" -> "spain"
      [] c = "Portugal" -> "portugal"
      [] OTHER -> c

\* any(cc.lower() in txt_low for cc in request.countries)
MentionsAny(card, countries) == \E i \in 1..Len(countries) : Lower(countries[i]) \in card.mentions

FallbackRow(card) ==
    LET m == is_manufacturer(card.words)
    IN  [empresa |-> card.first_line,
         pais |-> "No confirmado",
         que_fabrican |-> <<>>,
         categoria |-> <<>>,
         evidencia_fabricante |-> IF m.manu THEN m.evidence ELSE <<"Fabricante no confirmado">>,
         confianza |-> IF m.manu THEN m.confidence ELSE "Baja",
         source |-> "html_fallback"]

\* the `for c in cards` loop of the fallback
RECURSIVE ProcessCards(_, _, _, _)
ProcessCards(exh, seen, cs, req) ==
    IF cs = <<>> THEN exh
    ELSE LET c == Head(cs)
             rest == Tail(cs)
         IN  IF c.raises THEN ProcessCards(exh, seen, rest, req)
             ELSE IF c.len < MinCardLen THEN ProcessCards(exh, seen, rest, req)
             ELSE IF req.countries # <<>> /\ ~MentionsAny(c, req.countries)
                  THEN ProcessCards(exh, seen, rest, req)
             ELSE IF SkipNonManufacturer(req, is_manufacturer(c.words).manu)
                  THEN ProcessCards(exh, seen, rest, req)
             ELSE IF c.text \in seen THEN ProcessCards(exh, seen, rest, req)
             ELSE LET exh2 == Append(exh, FallbackRow(c))
                  IN  IF Len(exh2) >= req.max_exhibitors
                      THEN exh2
                      ELSE ProcessCards(exh2, seen \cup {c.text}, rest, req)

\* ------------------------------------------------------------------ headless browsers
\* browser = p.chromium.launch(headless=True), in the call `owner`
Launch(bs, owner) == Append(bs, [owner |-> owner, open |-> TRUE])

\* browser.close()
Close(bs, owner) ==
    [i \in 1..Len(bs) |-> IF bs[i].owner = owner THEN [bs[i] EXCEPT !.open = FALSE] ELSE bs[i]]

\* mutant: leaving the `with` block leaves the browsers as they are
ExitLeavesBrowsers(bs, owner) == bs

\* leaving `with async_playwright() as p` / `with sync_playwright() as p`, by the end
\* of the block or by an exception: the Playwright instance of the call is stopped,
\* and with it every browser that instance launched
ExitPlaywright(bs, owner) ==
    [i \in 1..Len(bs) |-> IF bs[i].owner = owner THEN [bs[i] EXCEPT !.open = FALSE] ELSE bs[i]]

\* ------------------------------------------------------------------ scrape_fair
\* mutant: the page cap tested with <= instead of <
LoopCondInclusive(p, exh, req) == p <= req.max_pages /\ Len(exh) < req.max_exhibitors

\* while page < request.max_pages and len(exhibitors) < request.max_exhibitors
LoopCond(p, exh, req) == p < req.max_pages /\ Len(exh) < req.max_exhibitors

\* mutant: the page counter advances by two
NextPageSkips(p) == p + 2

\* page += 1
NextPage(p) == p + 1

\* mutant: an empty page does not end the loop
HitsBreakNever(hits) == FALSE

\* if not hits: break
HitsBreak(hits) == hits = <<>>

\* mutant: the nbPages test lets one more page through
NbPagesBreakLate(nb, p) == nb # <<>> /\ p > nb[1]

\* if isinstance(nb_pages, int) and page >= nb_pages: break   (page already incremented)
NbPagesBreak(nb, p) == nb # <<>> /\ p >= nb[1]

\* if app_id and api_key and index_name
Discovered(f) == f.app_id # "" /\ f.api_key # "" /\ f.index_name # ""

\* the result of the algolia branch once the loop is left
AlgoliaReturn(exh) == Ok("algolia", exh)

\* mutant: without `except HTTPException: raise` every error becomes a bare 500
HandlerGeneric(exc) == Raised(500, 0, 0)

\* except HTTPException: raise  /  except Exception as e: raise HTTPException(500)
Handler(exc) == exc

InitFair ==
    /\ request \in Requests
    /\ pc = "start"
    /\ found = NoneFound
    /\ nObserved = 0
    /\ page = 0
    /\ exhibitors = <<>>
    /\ queries = <<>>
    /\ responses = <<>>
    /\ stop = ""
    /\ outcome = Running
    /\ cards = <<>>
    /\ url = ""
    /\ cfg = <<>>
    /\ apc = "idle"
    /\ calls = <<>>
    /\ res = <<>>
    /\ metas = <<>>
    /\ fetches = <<>>
    /\ static_page = <<>>
    /\ elements = <<>>
    /\ ret = <<>>
    /\ browsers = <<>>

\* sniff_algolia_from_url launches its browser and registers on_response
SniffLaunch ==
    /\ pc = "start"
    /\ pc' = "sniff"
    /\ browsers' = Launch(browsers, "sniff")
    /\ UNCHANGED <<request, found, nObserved, page, exhibitors, queries, responses, stop, outcome,
                   cards>>
    /\ UNCHANGED anyVars

\* a response event reaches the on_response callback while the page is open
OnResponse ==
    /\ pc = "sniff"
    /\ nObserved < MaxObserved
    /\ \E r \in SniffResponses : found' = on_response(found, r)
    /\ nObserved' = nObserved + 1
    /\ UNCHANGED <<request, pc, page, exhibitors, queries, responses, stop, outcome, cards,
                   browsers>>
    /\ UNCHANGED anyVars

\* page.goto raises (timeout, navigation error): scrape_fair's handler turns it into a 500
SniffFails ==
    /\ pc = "sniff"
    /\ pc' = "done"
    /\ outcome' = Handler(InternalError)
    /\ browsers' = ExitPlaywright(browsers, "sniff")
    /\ UNCHANGED <<request, found, nObserved, page, exhibitors, queries, responses, stop, cards>>
    /\ UNCHANGED anyVars

\* the wait is over, the browser is closed and `found` is returned
SniffReturn ==
    /\ pc = "sniff"
    /\ pc' = IF Discovered(found) THEN "loop" ELSE "dom"
    /\ nObserved' = 0
    /\ browsers' = ExitPlaywright(Close(browsers, "sniff"), "sniff")
    /\ UNCHANGED <<request, found, page, exhibitors, queries, responses, stop, outcome, cards>>
    /\ UNCHANGED anyVars

\* the loop condition holds: algolia_post_queries sends the POST for `page`
IssueQuery ==
    /\ pc = "loop"
    /\ LoopCond(page, exhibitors, request)
    /\ queries' = Append(queries, QueryFor(found, request, page))
    /\ pc' = "await"
    /\ UNCHANGED <<request, found, nObserved, page, exhibitors, responses, stop, outcome, cards,
                   browsers>>
    /\ UNCHANGED anyVars

\* the loop condition fails: return the algolia result
LoopExit ==
    /\ pc = "loop"
    /\ ~LoopCond(page, exhibitors, request)
    /\ stop' = IF page < request.max_pages THEN "max_exhibitors" ELSE "max_pages"
    /\ outcome' = AlgoliaReturn(exhibitors)
    /\ pc' = "done"
    /\ UNCHANGED <<request, found, nObserved, page, exhibitors, queries, responses, cards,
                   browsers>>
    /\ UNCHANGED anyVars

\* the answer to the POST arrives and the rest of the loop body runs
ReceiveJson(r) ==
    /\ r.kind = "json"
    /\ IF r.results = <<>>
       THEN /\ stop' = "no_results"
            /\ outcome' = AlgoliaReturn(exhibitors)
            /\ pc' = "done"
            /\ UNCHANGED <<page, exhibitors>>
       ELSE LET block == r.results[1]
            IN  IF HitsBreak(block.hits)
                THEN /\ stop' = "no_hits"
                     /\ outcome' = AlgoliaReturn(exhibitors)
                     /\ pc' = "done"
                     /\ UNCHANGED <<page, exhibitors>>
                ELSE LET exh == ProcessHits(exhibitors, block.hits, request)
                         p == NextPage(page)
                     IN  /\ exhibitors' = exh
                         /\ page' = p
                         /\ IF NbPagesBreak(block.nbPages, p)
                            THEN /\ stop' = "nbPages"
                                 /\ outcome' = AlgoliaReturn(exh)
                                 /\ pc' = "done"
                            ELSE /\ pc' = "loop"
                                 /\ UNCHANGED <<stop, outcome>>

\* the POST fails: network error, HTTP status >= 400, or a body that is not JSON
ReceiveError(r) ==
    /\ r.kind # "json"
    /\ outcome' = Handler(IF r.kind = "http" THEN AlgoliaError(r) ELSE InternalError)
    /\ stop' = "error"
    /\ pc' = "done"
    /\ UNCHANGED <<page, exhibitors>>

Receive ==
    /\ pc = "await"
    /\ \E r \in UpstreamResponses :
          /\ responses' = Append(responses, Summary(r))
          /\ (ReceiveJson(r) \/ ReceiveError(r))
    /\ UNCHANGED <<request, found, nObserved, queries, cards, browsers>>
    /\ UNCHANGED anyVars

\* no backend was discovered: the DOM fallback launches its browser
DomLaunch ==
    /\ pc = "dom"
    /\ pc' = "dom_open"
    /\ browsers' = Launch(browsers, "dom")
    /\ UNCHANGED <<request, found, nObserved, page, exhibitors, queries, responses, stop, outcome,
                   cards>>
    /\ UNCHANGED anyVars

\* the DOM fallback reads the page's cards, closes the browser and returns
DomFallback ==
    /\ pc = "dom_open"
    /\ \E cs \in SeqsUpTo(Cards, MaxCards) :
          /\ cards' = cs
          /\ outcome' = Ok("html_fallback", ProcessCards(exhibitors, {}, cs, request))
    /\ exhibitors' = outcome'.results
    /\ browsers' = ExitPlaywright(Close(browsers, "dom"), "dom")
    /\ pc' = "done"
    /\ UNCHANGED <<request, found, nObserved, page, queries, responses, stop>>
    /\ UNCHANGED anyVars

\* page.goto of the fallback raises
DomFails ==
    /\ pc = "dom_open"
    /\ outcome' = Handler(InternalError)
    /\ browsers' = ExitPlaywright(browsers, "dom")
    /\ pc' = "done"
    /\ UNCHANGED <<request, found, nObserved, page, exhibitors, queries, responses, stop, cards>>
    /\ UNCHANGED anyVars

NextFair ==
    \/ SniffLaunch
    \/ OnResponse
    \/ SniffFails
    \/ SniffReturn
    \/ IssueQuery
    \/ LoopExit
    \/ Receive
    \/ DomLaunch
    \/ DomFallback
    \/ DomFails

SpecFair == InitFair /\ [][NextFair]_vars

\* ------------------------------------------------------------------ scrapers.py helpers
\* str.strip() and str.upper() on the country tokens a config may carry
Strip(c) ==
    CASE c = " Spain " -> "Spain"
      [] c = "  " -> ""
      [] OTHER -> c

Upper(c) ==
    CASE c = "es" -> "ES"
      [] c = "Spain" -> "SPAIN"
      [] c = "Portugal" -> "PORTUGAL"
      [] c = "pt" -> "PT"
      [] c = "prt" -> "PRT"
      [] c = "españa" -> "ESPAÑA"
      [] c = "France" -> "FRANCE"
      [] OTHER -> c

\* mutant: the dedupe loop keeps every element
UniqKeepsAll(xs, seen) == xs

\* the dedupe loop: first occurrences, in order
RECURSIVE Uniq(_, _)
Uniq(xs, seen) ==
    IF xs = <<>> THEN <<>>
    ELSE IF Head(xs) \in seen THEN Uniq(Tail(xs), seen)
    ELSE <<Head(xs)>> \o Uniq(Tail(xs), seen \cup {Head(xs)})

RECURSIVE NormalizeEach(_)
NormalizeEach(cs) ==
    IF cs = <<>> THEN <<>>
    ELSE LET cc == Strip(Head(cs))
             u == Upper(cc)
             rest == NormalizeEach(Tail(cs))
         IN  IF cc = "" THEN rest
             ELSE IF u \in {"ES", "ESP", "ESPAÑA", "SPAIN"} THEN <<"Spain">> \o rest
             ELSE IF u \in {"PT", "PRT", "PORTUGAL"} THEN <<"Portugal">> \o rest
             ELSE <<cc>> \o rest

normalize_countries(countries) ==
    IF countries = <<>> THEN <<"Spain", "Portugal">>
    ELSE Uniq(NormalizeEach(countries), {})

\* ------------------------------------------------------------------ scrape_any's inputs
\* Event URLs: the host, whether is_easyfairs_supported accepts it, and the
\* container id get_container_id_for_url maps it to (0: no mapping).
Urls ==
    { [host |-> "www.logisticsautomationmadrid.com", easyfairs |-> TRUE, container_id |-> 2653],
      [host |-> "www.empackmadrid.com", easyfairs |-> TRUE, container_id |-> 0],
      [host |-> "example.org", easyfairs |-> FALSE, container_id |-> 0] }

CfgCountries ==
    {<<>>, <<"es", "PT", " Spain ">>, <<"France", "  ">>, <<"  ">>,
     <<"prt", "France", "españa", "France">>}

Configs == [countries : CfgCountries, debug : BOOLEAN, max_pages : {0, 20}]

is_easyfairs_supported(u) == u.easyfairs

get_container_id_for_url(u) == u.container_id

_host(u) == u.host

\* rows fetch_easyfairs_stands_by_countries may return
StandRows ==
    { [name |-> "MECALUX S.A", activity |-> "Sistemas de Almacenamiento", website |-> "",
       country |-> "Spain"],
      [name |-> "Ruedas Alex SLU", activity |-> "Componentes de automatización",
       website |-> "http://www.alex.es/", country |-> "Spain"] }

\* the meta fetch_easyfairs_stands_by_countries returns with n rows
FetchMeta(cid, n) ==
    [source |-> "easyfairs_widgets", container_id |-> cid, total_hits_reported |-> n]

\* the arguments scrape_easyfairs passes to fetch_easyfairs_stands_by_countries
FetchCall(u, c) ==
    [container_id |-> get_container_id_for_url(u),
     countries |-> normalize_countries(c.countries),
     max_pages |-> IF c.max_pages > 0 THEN <<c.max_pages>> ELSE <<>>]

RECURSIVE MapRows(_)
MapRows(rows) ==
    IF rows = <<>> THEN <<>>
    ELSE <<[fabricante |-> Head(rows).name, actividad |-> Head(rows).activity,
            enlace_web |-> Head(rows).website, pais |-> Head(rows).country]>>
         \o MapRows(Tail(rows))

\* meta2 = {"driver": "easyfairs", "supported": True}; meta2.update(meta)
EasyfairsMeta(meta) ==
    [driver |-> "easyfairs", supported |-> TRUE, source |-> meta.source,
     container_id |-> meta.container_id, total_hits_reported |-> meta.total_hits_reported]

\* mutant: the meta of a host without mapping carries no reason
EasyfairsUnsupportedBare(reason) == [driver |-> "easyfairs", supported |-> FALSE]

EasyfairsUnsupported(reason) ==
    [driver |-> "easyfairs", supported |-> FALSE, reason |-> reason]

\* scrape_easyfairs with `fetched` the rows fetch_easyfairs_stands_by_countries
\* returns when it is reached
scrape_easyfairs(u, c, fetched) ==
    IF ~is_easyfairs_supported(u)
    THEN [rows |-> <<>>, meta |-> [driver |-> "easyfairs", supported |-> FALSE]]
    ELSE IF get_container_id_for_url(u) = 0
    THEN [rows |-> <<>>,
          meta |-> EasyfairsUnsupported("domain supported pero sin containerId mapping")]
    ELSE [rows |-> MapRows(fetched),
          meta |-> EasyfairsMeta(FetchMeta(get_container_id_for_url(u), Len(fetched)))]

\* whether scrape_easyfairs reaches fetch_easyfairs_stands_by_countries
ReachesFetch(u) == is_easyfairs_supported(u) /\ get_container_id_for_url(u) # 0

\* ------------------------------------------------------------------ scrape_static_html
\* Anchors of a fetched page: the anchor text after whitespace normalisation, its
\* length, whether its lower-cased text holds a menu word (home, inicio, about,
\* contact, privacy, cookies), whether it holds a word of _NAME_PATTERNS, and its
\* place in Python's string order.
Anchors ==
    { [text |-> "Zeta Robotics", len |-> 13, menu |-> FALSE, hint |-> FALSE, rank |-> 4],
      [text |-> "Acme Exhibitors", len |-> 15, menu |-> FALSE, hint |-> TRUE, rank |-> 1],
      [text |-> "Home", len |-> 4, menu |-> TRUE, hint |-> FALSE, rank |-> 2],
      [text |-> "ab", len |-> 2, menu |-> FALSE, hint |-> FALSE, rank |-> 5] }

PreviewLimit == 400

StaticResultCap == 2000

\* no page has been requested yet
NoPage == [kind |-> "none", status |-> 0, len |-> 0, body_hint |-> FALSE, anchors |-> <<>>]

\* what requests.get may do: raise, answer with a status >= 400, or answer with a page
StaticFetches ==
    {[kind |-> "neterr", status |-> 0, len |-> 0, body_hint |-> FALSE, anchors |-> <<>>]}
    \cup {[kind |-> "http", status |-> st, len |-> n, body_hint |-> FALSE, anchors |-> <<>>] :
              st \in {404, 503}, n \in {0, PreviewLimit + 1}}
    \cup {[kind |-> "page", status |-> 200, len |-> 0, body_hint |-> b, anchors |-> as] :
              b \in BOOLEAN, as \in SeqsUpTo(Anchors, MaxAnchors)}

\* mutant: every page passes the test
LooksAlways(html) == TRUE

_looks_like_exhibitors_page(html) ==
    html.body_hint \/ \E i \in 1..Len(html.anchors) : html.anchors[i].hint

\* the set `candidates`
Candidates(html) ==
    {a \in Range(html.anchors) : 3 <= a.len /\ a.len <= 80 /\ ~a.menu}

\* sorted(candidates)
RECURSIVE Sorted(_)
Sorted(S) ==
    IF S = {} THEN <<>>
    ELSE LET lo == CHOOSE a \in S : \A b \in S : a.rank <= b.rank
         IN  <<lo>> \o Sorted(S \ {lo})

RECURSIVE NameRows(_)
NameRows(items) ==
    IF items = <<>> THEN <<>>
    ELSE <<[fabricante |-> Head(items).text, actividad |-> "", enlace_web |-> "", pais |-> ""]>>
         \o NameRows(Tail(items))

scrape_static_html(f) ==
    IF f.kind = "neterr"
    THEN [rows |-> <<>>,
          meta |-> [driver |-> "static_html", supported |-> FALSE, error |-> "request failed"]]
    ELSE IF f.status >= 400
    THEN [rows |-> <<>>,
          meta |-> [driver |-> "static_html", supported |-> FALSE, http_status |-> f.status,
                    body_preview_len |-> Truncate(f.len, PreviewLimit)]]
    ELSE IF ~_looks_like_exhibitors_page(f)
    THEN [rows |-> <<>>,
          meta |-> [driver |-> "static_html", supported |-> FALSE,
                    reason |-> "no parece directorio"]]
    ELSE LET results == NameRows(Take(Sorted(Candidates(f)), StaticResultCap))
         IN  [rows |-> results,
              meta |-> [driver |-> "static_html", supported |-> TRUE,
                        count_candidates |-> Len(results)]]

\* ------------------------------------------------------------------ scrape_with_playwright
\* <a> elements of the rendered page: the stripped inner text, its length and its
\* lower-cased form.
Elements ==
    { [text |-> "Acme Robotics", len |-> 13, lower |-> "acme robotics"],
      [text |-> "ACME ROBOTICS", len |-> 13, lower |-> "acme robotics"],
      [text |-> "abc", len |-> 3, lower |-> "abc"] }

RECURSIVE ElementRows(_, _)
ElementRows(els, seen) ==
    IF els = <<>> THEN <<>>
    ELSE LET e == Head(els)
         IN  IF e.len > 3 /\ e.len < 80
             THEN IF e.lower \in seen THEN ElementRows(Tail(els), seen)
                  ELSE <<[fabricante |-> e.text, actividad |-> "", enlace_web |-> "",
                          pais |-> ""]>>
                       \o ElementRows(Tail(els), seen \cup {e.lower})
             ELSE ElementRows(Tail(els), seen)

scrape_with_playwright(els) ==
    [rows |-> ElementRows(els, {}),
     meta |-> [driver |-> "playwright", supported |-> TRUE, note |-> "JS dynamic fallback"]]

\* ------------------------------------------------------------------ scrape_any
\* mutant: a supported driver is accepted even with zero rows
SucceededIgnoringRows(r) == r.meta.supported

\* if meta.get("supported") and res
Succeeded(r) == r.meta.supported /\ r.rows # <<>>

\* if res3
PlaywrightSucceeded(r) == r.rows # <<>>

\* the "attempts" list of meta_out
Attempts(ms) == <<ms[1], ms[2]>>

meta_out(u, ms) ==
    [driver |-> "none", supported |-> FALSE,
     reason |-> "No se detectó un driver soportado o no se obtuvieron resultados",
     attempts |-> Attempts(ms), host |-> _host(u)]

NoMeta == [driver |-> "", supported |-> FALSE]

NotReturned == [status |-> "", rows |-> <<>>, meta |-> NoMeta]

Returned(rows, meta) == [status |-> "returned", rows |-> rows, meta |-> meta]

\* an exception leaves scrape_any: nothing is returned
Propagated == [status |-> "raised", rows |-> <<>>, meta |-> NoMeta]

InitAny ==
    /\ url \in Urls
    /\ cfg \in Configs
    /\ apc = "easyfairs"
    /\ calls = <<>>
    /\ res = <<>>
    /\ metas = <<>>
    /\ fetches = <<>>
    /\ static_page = NoPage
    /\ elements = <<>>
    /\ ret = NotReturned
    /\ request = [max_pages |-> 0, max_exhibitors |-> 0, manufacturers_only |-> FALSE,
                  countries |-> <<>>]
    /\ pc = "idle"
    /\ found = NoneFound
    /\ nObserved = 0
    /\ page = 0
    /\ exhibitors = <<>>
    /\ queries = <<>>
    /\ responses = <<>>
    /\ stop = ""
    /\ outcome = Running
    /\ cards = <<>>
    /\ browsers = <<>>

\* 1) res, meta = scrape_easyfairs(url, cfg)
CallEasyfairs ==
    /\ apc = "easyfairs"
    /\ calls' = Append(calls, "easyfairs")
    /\ \E fetched \in SeqsUpTo(StandRows, MaxRows) :
          LET r == scrape_easyfairs(url, cfg, fetched)
          IN  /\ res' = Append(res, r.rows)
              /\ metas' = Append(metas, r.meta)
              /\ fetches' = IF ReachesFetch(url) THEN Append(fetches, FetchCall(url, cfg))
                            ELSE fetches
              /\ IF Succeeded(r)
                 THEN ret' = Returned(r.rows, r.meta) /\ apc' = "done"
                 ELSE ret' = ret /\ apc' = "static"
    /\ UNCHANGED <<url, cfg, static_page, elements, browsers>>
    /\ UNCHANGED fairVars

\* fetch_easyfairs_stands_by_countries raises: the exception leaves scrape_any
EasyfairsRaises ==
    /\ apc = "easyfairs"
    /\ ReachesFetch(url)
    /\ calls' = Append(calls, "easyfairs")
    /\ fetches' = Append(fetches, FetchCall(url, cfg))
    /\ ret' = Propagated
    /\ apc' = "done"
    /\ UNCHANGED <<url, cfg, res, metas, static_page, elements, browsers>>
    /\ UNCHANGED fairVars

\* 2) res2, meta2 = scrape_static_html(url, cfg)
CallStatic ==
    /\ apc = "static"
    /\ calls' = Append(calls, "static_html")
    /\ \E f \in StaticFetches :
          LET r == scrape_static_html(f)
          IN  /\ static_page' = f
              /\ res' = Append(res, r.rows)
              /\ metas' = Append(metas, r.meta)
              /\ IF Succeeded(r)
                 THEN /\ ret' = Returned(r.rows,
                                         IF cfg.debug
                                         THEN [driver |-> r.meta.driver,
                                               supported |-> r.meta.supported,
                                               count_candidates |-> r.meta.count_candidates,
                                               previous_driver |-> metas[1]]
                                         ELSE r.meta)
                      /\ apc' = "done"
                 ELSE ret' = ret /\ apc' = "playwright"
    /\ UNCHANGED <<url, cfg, fetches, elements, browsers>>
    /\ UNCHANGED fairVars

\* 3) scrape_with_playwright is called and launches its browser
PlaywrightLaunch ==
    /\ apc = "playwright"
    /\ apc' = "playwright_open"
    /\ browsers' = Launch(browsers, "playwright")
    /\ UNCHANGED <<url, cfg, calls, res, metas, fetches, static_page, elements, ret>>
    /\ UNCHANGED fairVars

\* res3, meta3 = scrape_with_playwright(url, timeout_s=cfg.timeout_s) returns
CallPlaywright ==
    /\ apc = "playwright_open"
    /\ calls' = Append(calls, "playwright")
    /\ \E els \in SeqsUpTo(Elements, MaxElements) :
          LET r == scrape_with_playwright(els)
          IN  /\ elements' = els
              /\ res' = Append(res, r.rows)
              /\ metas' = Append(metas, r.meta)
              /\ ret' = IF PlaywrightSucceeded(r) THEN Returned(r.rows, r.meta)
                        ELSE Returned(<<>>, meta_out(url, metas))
    /\ browsers' = ExitPlaywright(Close(browsers, "playwright"), "playwright")
    /\ apc' = "done"
    /\ UNCHANGED <<url, cfg, fetches, static_page>>
    /\ UNCHANGED fairVars

\* page.goto or inner_text raises inside scrape_with_playwright
PlaywrightRaises ==
    /\ apc = "playwright_open"
    /\ calls' = Append(calls, "playwright")
    /\ ret' = Propagated
    /\ browsers' = ExitPlaywright(browsers, "playwright")
    /\ apc' = "done"
    /\ UNCHANGED <<url, cfg, res, metas, fetches, static_page, elements>>
    /\ UNCHANGED fairVars

NextAny ==
    \/ CallEasyfairs
    \/ EasyfairsRaises
    \/ CallStatic
    \/ PlaywrightLaunch
    \/ CallPlaywright
    \/ PlaywrightRaises

SpecAny == InitAny /\ [][NextAny]_vars

\* ================================================================== claims
\* ------------------------------------------------------------------ C1
\* the drivers in scrape_any's fixed order
DriverOrder == <<"easyfairs", "static_html", "playwright">>

\* the i-th invoked driver returned rows that scrape_any accepts
Accepted(i) ==
    /\ i <= Len(res)
    /\ res[i] # <<>>
    /\ metas[i].supported

\* C1: scrape_any invokes the drivers in the order Easyfairs, static HTML,
\* Playwright, starting with Easyfairs; a driver is invoked only after every earlier
\* one has returned zero rows or unsupported; none is invoked after one has
\* succeeded; and the rows returned are those of the first driver that succeeded
\* (a return before the last driver always carries at least one row).
C1_FixedOrderFirstSuccess ==
    /\ Len(calls) <= Len(DriverOrder)
    /\ \A i \in 1..Len(calls) : calls[i] = DriverOrder[i]
    /\ apc # "easyfairs" => Len(calls) >= 1 /\ calls[1] = "easyfairs"
    /\ \A i \in 1..Len(calls) : \A j \in 1..(i - 1) : j <= Len(res) /\ ~Accepted(j)
    /\ \A j \in 1..Len(res) : Accepted(j) =>
          /\ Len(calls) = j
          /\ apc = "done"
          /\ ret.status = "returned"
          /\ ret.rows = res[j]
    /\ (apc = "done" /\ ret.status = "returned" /\ Len(calls) < Len(DriverOrder))
          => ret.rows # <<>>
    /\ (apc = "done" /\ ret.status = "returned" /\ ret.rows # <<>>)
          => Accepted(Len(calls)) /\ ret.rows = res[Len(calls)]

\* Easyfairs was reached and gave no rows, static HTML gave none, Playwright's rows
\* were returned
C1_Witness ==
    /\ apc = "done"
    /\ calls = DriverOrder
    /\ fetches # <<>>
    /\ ret.status = "returned"
    /\ ret.rows # <<>>
    /\ ret.meta.driver = "playwright"

\* ------------------------------------------------------------------ C2
\* C2: whatever the upstream answers, the number of page queries of one request
\* never exceeds max_pages, and is zero when max_pages <= 0.
C2_QueriesWithinMaxPages ==
    Len(queries) <= (IF request.max_pages > 0 THEN request.max_pages ELSE 0)

\* the cap itself ended a pagination the upstream would have continued
C2_Witness ==
    /\ pc = "done"
    /\ stop = "max_pages"
    /\ request.max_pages >= 2
    /\ Len(queries) = request.max_pages
    /\ responses[Len(responses)].nbPages = <<>>

\* ------------------------------------------------------------------ C3
\* every answer so far was a JSON block reporting nbPages = n, with hits on every
\* page below n
ReportsThroughout(n) ==
    \A i \in 1..Len(responses) :
        /\ responses[i].kind = "json"
        /\ responses[i].block
        /\ responses[i].nbPages = <<n>>
        /\ (i - 1 < n => responses[i].hits)

\* the pages queried are exactly 0..n-1
QueriedExactly(n) ==
    /\ Len(queries) = n
    /\ \A i \in 1..Len(queries) : queries[i].page = i - 1

\* the request ended without max_exhibitors stopping the loop, against an upstream
\* that reported nbPages = n throughout, with max_pages >= n
EndedUnder(n) ==
    /\ pc = "done"
    /\ outcome.status = "ok"
    /\ outcome.mode = "algolia"
    /\ stop # "max_exhibitors"
    /\ request.max_pages >= n
    /\ ReportsThroughout(n)

\* C3 as stated: for every N, an upstream that reports nbPages = N and returns hits on
\* pages 0..N-1 gets exactly N page queries (none for page N), when neither cap
\* intervenes.
C3_ExactlyNbPagesQueries ==
    \A n \in 0..MaxPages : EndedUnder(n) => QueriedExactly(n)

\* C3 amended: the same for every N >= 1.
C3_ExactlyNbPagesQueriesFromOne ==
    \A n \in 1..MaxPages : EndedUnder(n) => QueriedExactly(n)

\* nbPages = 3 with hits on pages 0, 1, 2: three queries
C3_Witness ==
    /\ EndedUnder(3)
    /\ Len(responses) = 3
    /\ stop = "nbPages"

\* ------------------------------------------------------------------ C4
\* the i-th answer is a block without hits that reports more pages than its own index
EmptyPageBelowNbPages(i) ==
    /\ responses[i].kind = "json"
    /\ responses[i].block
    /\ ~responses[i].hits
    /\ responses[i].nbPages # <<>>
    /\ responses[i].nbPages[1] > queries[i].page

\* C4 as stated: when page k is the first page without hits while nbPages is larger,
\* the client stops having issued k requests in total.
C4_StopsAfterKRequests ==
    \A i \in 1..Len(responses) :
        EmptyPageBelowNbPages(i) => pc = "done" /\ Len(queries) = queries[i].page

\* C4 amended: the client stops at that page and requests no later one, having issued
\* k + 1 requests in total (pages 0..k).
C4_StopsAtEmptyPage ==
    \A i \in 1..Len(responses) :
        EmptyPageBelowNbPages(i) =>
            /\ pc = "done"
            /\ stop = "no_hits"
            /\ i = Len(queries)
            /\ Len(queries) = queries[i].page + 1
            /\ \A j \in 1..Len(queries) : queries[j].page <= queries[i].page

\* page 2 comes back empty although more pages are reported: pages 0, 1, 2 were queried
C4_Witness ==
    /\ pc = "done"
    /\ Len(responses) = 3
    /\ EmptyPageBelowNbPages(3)
    /\ queries[3].page = 2

\* ------------------------------------------------------------------ C5
\* C5: the page queries of one request are pages 0, 1, 2, ... in that order, none
\* skipped or repeated, and a query is issued only when every earlier query has been
\* answered and its answer examined (at most one query is ever unanswered, and only
\* while the client waits for it).
C5_SequentialPages ==
    /\ \A i \in 1..Len(queries) : queries[i].page = i - 1
    /\ pc = "await" => Len(queries) = Len(responses) + 1
    /\ pc # "await" => Len(queries) = Len(responses)
    /\ pc = "loop" => page = Len(responses)

\* the third query is in flight after two answered ones
C5_Witness ==
    /\ pc = "await"
    /\ Len(queries) = 3
    /\ Len(responses) = 2

\* ------------------------------------------------------------------ C6
RetryableStatuses == {403, 429, 500}

\* the number of POSTs sent for page p
AttemptsFor(p) == Cardinality({i \in 1..Len(queries) : queries[i].page = p})

\* C6: a page query answered with 403, 429 or 5xx is retried before the request
\* fails: a request that failed on such an answer has sent that page more than once.
C6_RetriesBeforeFailing ==
    (/\ pc = "done"
     /\ stop = "error"
     /\ responses[Len(responses)].kind = "http"
     /\ responses[Len(responses)].status \in RetryableStatuses)
        => AttemptsFor(queries[Len(queries)].page) >= 2

\* ------------------------------------------------------------------ C7
\* C7: an upstream error status ends the request with an error that carries that
\* status and at most BodyLimit characters of the body; the error leaves scrape_fair
\* as it was raised, and no rows of earlier pages are returned.
C7_UpstreamErrorSurfaced ==
    \A i \in 1..Len(responses) :
        responses[i].kind = "http" =>
            /\ i = Len(responses)
            /\ pc = "done"
            /\ outcome.status = "error"
            /\ outcome.code = 502
            /\ outcome.upstream_status = responses[i].status
            /\ outcome.excerpt_len = Min(responses[i].len, BodyLimit)
            /\ outcome.excerpt_len <= BodyLimit
            /\ outcome.results = <<>>

\* the second page fails with a body longer than the cut, after rows were collected
C7_Witness ==
    /\ pc = "done"
    /\ Len(responses) = 2
    /\ responses[2].kind = "http"
    /\ responses[2].len > BodyLimit
    /\ exhibitors # <<>>
    /\ outcome.status = "error"

\* ------------------------------------------------------------------ C8
\* C8: a completed scrape_fair request never returns status "ok" with zero results.
C8_NeverOkWithoutRows ==
    (pc = "done" /\ outcome.status = "ok") => outcome.results # <<>>

\* ------------------------------------------------------------------ C9
RECURSIVE DriversOf(_)
DriversOf(ms) ==
    IF ms = <<>> THEN <<>> ELSE <<Head(ms).driver>> \o DriversOf(Tail(ms))

\* C9: when scrape_any returns no rows, its meta is marked unsupported and its
\* attempts list holds the meta of every driver that was invoked, in call order.
C9_AttemptsHoldEveryDriver ==
    (apc = "done" /\ ret.status = "returned" /\ ret.rows = <<>>) =>
        /\ ret.meta.supported = FALSE
        /\ DriversOf(ret.meta.attempts) = calls

\* ------------------------------------------------------------------ C10
\* the deduplication key of a hit: its object identifier, else (company, country)
HitKey(h) == IF h.objectID # "" THEN <<h.objectID>> ELSE <<h.name, h.country>>

\* the hit a row of the algolia branch was built from
RowSource(row) == CHOOSE h \in Hits : AlgoliaRow(h) = row

\* C10: the rows returned by the algolia branch never hold two rows with the same
\* deduplication key.
C10_NoDuplicateKeys ==
    (pc = "done" /\ outcome.status = "ok" /\ outcome.mode = "algolia") =>
        \A i, j \in 1..Len(outcome.results) :
            i # j => HitKey(RowSource(outcome.results[i])) # HitKey(RowSource(outcome.results[j]))

\* ------------------------------------------------------------------ C11
\* the place where key k first occurs in the list of keys
FirstAt(keys, k) == CHOOSE i \in 1..Len(keys) : keys[i] = k /\ \A j \in 1..(i - 1) : keys[j] # k

\* every output key occurs in the input, and the output keys stand in the order in
\* which they first occur in the input
KeepsFirstOccurrenceOrder(inKeys, outKeys) ==
    /\ \A i \in 1..Len(outKeys) : outKeys[i] \in Range(inKeys)
    /\ \A i, j \in 1..Len(outKeys) :
          i < j => FirstAt(inKeys, outKeys[i]) < FirstAt(inKeys, outKeys[j])

AnchorTexts == [i \in 1..Len(static_page.anchors) |-> static_page.anchors[i].text]

ElementTexts == [i \in 1..Len(elements) |-> elements[i].text]

CardLines == [i \in 1..Len(cards) |-> cards[i].first_line]

\* the names of the rows the i-th invoked driver of scrape_any returned
NamesOf(i) == [k \in 1..Len(res[i]) |-> res[i][k].fabricante]

\* C11: the rows of scrape_static_html, of scrape_with_playwright and of the DOM
\* fallback of scrape_fair stand in the order in which their items first occur in
\* the input (anchors, elements, cards).
C11_FirstOccurrenceOrder ==
    /\ Len(res) >= 2 => KeepsFirstOccurrenceOrder(AnchorTexts, NamesOf(2))
    /\ Len(res) >= 3 => KeepsFirstOccurrenceOrder(ElementTexts, NamesOf(3))
    /\ outcome.mode = "html_fallback" =>
          KeepsFirstOccurrenceOrder(CardLines,
                                    [k \in 1..Len(outcome.results) |-> outcome.results[k].empresa])

\* ------------------------------------------------------------------ C12
\* country c matches an entry of the allow-list, case-insensitively
InAllowList(c, countries) == \E i \in 1..Len(countries) : Lower(c) = Lower(countries[i])

\* C12: for a request with a non-empty country allow-list, every row of the algolia
\* path carries a country of the allow-list (compared case-insensitively) or the
\* label "No confirmado" of a hit without country; no row carries another country.
C12_RowsWithinAllowList ==
    request.countries # <<>> =>
        \A i \in 1..Len(exhibitors) :
            exhibitors[i].source = "algolia" =>
                \/ exhibitors[i].pais = "No confirmado"
                \/ InAllowList(exhibitors[i].pais, request.countries)

\* ------------------------------------------------------------------ C13
\* the name each country token stands for ("" : a blank token, which is dropped)
ExpectedName(tok) ==
    CASE tok \in {"es", " Spain ", "españa"} -> "Spain"
      [] tok \in {"PT", "prt"} -> "Portugal"
      [] tok = "France" -> "France"
      [] tok = "  " -> ""

ExpectedNames(countries) == [i \in 1..Len(countries) |-> ExpectedName(countries[i])]

NoDuplicates(xs) == \A i, j \in 1..Len(xs) : i # j => xs[i] # xs[j]

\* C13: for a non-empty input, normalize_countries returns the names its tokens
\* stand for (ES/ESP/ESPAÑA/SPAIN -> Spain, PT/PRT/PORTUGAL -> Portugal in any case
\* and after trimming, any other token as it is), without the blank tokens, each
\* name once, in the order of first occurrence.
C13_NormalizeCountries ==
    \A i \in 1..Len(fetches) :
        cfg.countries # <<>> =>
            /\ Range(fetches[i].countries) = Range(ExpectedNames(cfg.countries)) \ {""}
            /\ NoDuplicates(fetches[i].countries)
            /\ KeepsFirstOccurrenceOrder(ExpectedNames(cfg.countries), fetches[i].countries)

\* codes in both cases and a padded name collapse to Spain, Portugal
C13_Witness ==
    /\ fetches # <<>>
    /\ cfg.countries = <<"es", "PT", " Spain ">>
    /\ fetches[1].countries = <<"Spain", "Portugal">>

\* ------------------------------------------------------------------ C14
\* the input supplies no usable country
NoUsableCountry(countries) == \A i \in 1..Len(countries) : Strip(countries[i]) = ""

\* C14: normalize_countries never returns an empty list: an input without usable
\* country gives the default, and normalising the result again changes nothing.
C14_NeverEmptyAllowList ==
    \A i \in 1..Len(fetches) :
        /\ fetches[i].countries # <<>>
        /\ NoUsableCountry(cfg.countries) => fetches[i].countries = <<"Spain", "Portugal">>
        /\ normalize_countries(fetches[i].countries) = fetches[i].countries

\* ------------------------------------------------------------------ C15
\* C15: a page query is issued only when discovery produced credentials and a
\* container id, and every page query carries the filter on that container id; a
\* request whose discovery found no container id issues no query.
C15_QueriesCarryContainerId ==
    /\ \A i \in 1..Len(queries) :
          /\ queries[i].app_id # "" /\ queries[i].api_key # ""
          /\ found.container_id # 0
          /\ queries[i].filters = <<found.container_id>>
    /\ (pc # "sniff" /\ found.container_id = 0) => queries = <<>>

\* ------------------------------------------------------------------ C16
\* the fetched HTML holds one of the words exhibitor(s), expositor(es), companies,
\* empresas, in its body or in an anchor
HasLexicalHint(p) == p.body_hint \/ \E a \in Range(p.anchors) : a.hint

\* C16: scrape_static_html returns rows only for HTML that holds a lexical hint; for
\* a fetched page without hint it returns zero rows, supported=False and a reason,
\* whatever anchors the page holds, and scrape_any does not return static-HTML rows.
C16_NoRowsWithoutHint ==
    Len(res) >= 2 =>
        /\ res[2] # <<>> => HasLexicalHint(static_page)
        /\ (static_page.kind = "page" /\ ~HasLexicalHint(static_page)) =>
              /\ res[2] = <<>>
              /\ metas[2].supported = FALSE
              /\ "reason" \in DOMAIN metas[2]
              /\ apc # "static"
              /\ ret.meta.driver # "static_html"

\* a page without hint whose anchors would have passed the extraction: the static
\* driver gave nothing and Playwright was tried
C16_Witness ==
    /\ calls = DriverOrder
    /\ static_page.kind = "page"
    /\ ~HasLexicalHint(static_page)
    /\ \E a \in Range(static_page.anchors) : a.len >= 3 /\ a.len <= 80 /\ ~a.menu
    /\ res[2] = <<>>

\* ------------------------------------------------------------------ C17
\* the row was built from a hit or from a card that is_manufacturer classifies as a
\* manufacturer
FromManufacturer(row) ==
    \/ /\ row.source = "algolia"
       /\ \E h \in Hits : AlgoliaRow(h) = row /\ is_manufacturer(full_text(h)).manu
       /\ \A h \in Hits : AlgoliaRow(h) = row => is_manufacturer(full_text(h)).manu
    \/ /\ row.source = "html_fallback"
       /\ \E c \in Range(cards) : FallbackRow(c) = row /\ is_manufacturer(c.words).manu
       /\ \A c \in Range(cards) : FallbackRow(c) = row => is_manufacturer(c.words).manu

\* C17: with manufacturers_only set, every row collected and every row returned, in
\* the algolia and in the html_fallback mode, comes from an item classified as a
\* manufacturer, and none carries the evidence "Fabricante no confirmado".
C17_OnlyManufacturers ==
    request.manufacturers_only =>
        /\ \A i \in 1..Len(exhibitors) :
              /\ FromManufacturer(exhibitors[i])
              /\ exhibitors[i].evidencia_fabricante # <<"Fabricante no confirmado">>
        /\ \A i \in 1..Len(outcome.results) :
              /\ FromManufacturer(outcome.results[i])
              /\ outcome.results[i].evidencia_fabricante # <<"Fabricante no confirmado">>

\* the upstream sent a distributor and a manufacturer on one page: only the
\* manufacturer's row was returned
C17_Witness ==
    /\ request.manufacturers_only
    /\ pc = "done"
    /\ outcome.status = "ok"
    /\ outcome.mode = "algolia"
    /\ Len(responses) = 1
    /\ Len(outcome.results) = 1
    /\ outcome.results[1].empresa = "MECALUX S.A"
    /\ request.max_exhibitors >= 2
    /\ stop = "nbPages"

\* the same in the DOM fallback: of a manufacturer's card and a distributor's card,
\* only the first gave a row
C17_WitnessFallback ==
    /\ request.manufacturers_only
    /\ pc = "done"
    /\ outcome.mode = "html_fallback"
    /\ Len(cards) = 2
    /\ Len(outcome.results) = 1
    /\ \E c \in Range(cards) : c.len >= MinCardLen /\ ~is_manufacturer(c.words).manu

\* ------------------------------------------------------------------ C18
\* C18: for a host that is not recognized, and for a recognized host without
\* container-id mapping, scrape_easyfairs returns zero rows with supported=False and
\* the fetch is never called; the meta carries a reason in the second case only.
C18_UnsupportedWithoutQuery ==
    /\ (~url.easyfairs \/ url.container_id = 0) => fetches = <<>>
    /\ Len(metas) >= 1 =>
          /\ ~url.easyfairs =>
                /\ res[1] = <<>>
                /\ metas[1].driver = "easyfairs"
                /\ metas[1].supported = FALSE
                /\ "reason" \notin DOMAIN metas[1]
          /\ (url.easyfairs /\ url.container_id = 0) =>
                /\ res[1] = <<>>
                /\ metas[1].driver = "easyfairs"
                /\ metas[1].supported = FALSE
                /\ "reason" \in DOMAIN metas[1]

\* scrape_easyfairs has returned for a recognized host without mapping
C18_Witness ==
    /\ Len(metas) >= 1
    /\ url.easyfairs
    /\ url.container_id = 0
    /\ metas[1].supported = FALSE
    /\ apc = "static"

\* scrape_easyfairs has returned for a host that is not recognized
C18_WitnessUnknownHost ==
    /\ Len(metas) >= 1
    /\ ~url.easyfairs
    /\ metas[1].supported = FALSE
    /\ apc = "static"

\* ------------------------------------------------------------------ C19
\* the call that owns a browser is still running
OwnerRunning(owner) ==
    \/ owner = "sniff" /\ pc = "sniff"
    \/ owner = "dom" /\ pc = "dom_open"
    \/ owner = "playwright" /\ apc = "playwright_open"

C19_WitnessPlaywright ==
    /\ apc = "done"
    /\ ret.status = "raised"
    /\ Len(browsers) = 1
    /\ browsers[1].owner = "playwright"
    /\ ~browsers[1].open

\* ------------------------------------------------------------------ C20
\* C20: a page query answered with a body that is not JSON ends the request with an
\* error: it is the last answer, and the request never returns "ok", neither with
\* the rows of earlier pages nor with none.
C20_MalformedBodyFails ==
    \A i \in 1..Len(responses) :
        responses[i].kind = "badjson" =>
            /\ i = Len(responses)
            /\ pc = "done"
            /\ outcome.status = "error"
            /\ outcome.code >= 500
            /\ outcome.results = <<>>

\* rows were collected from page 0 and the answer for page 1 was not JSON
C20_Witness ==
    /\ pc = "done"
    /\ Len(responses) = 2
    /\ responses[2].kind = "badjson"
    /\ exhibitors # <<>>
    /\ outcome.status = "error"

\* ------------------------------------------------------------------ C21
\* C21: the rows collected and the rows returned by scrape_fair never number more
\* than max_exhibitors, in the algolia and in the html_fallback mode, for every
\* max_exhibitors from 0 up.
C21_RowsWithinMaxExhibitors ==
    /\ Len(exhibitors) <= request.max_exhibitors
    /\ Len(outcome.results) <= request.max_exhibitors

\* ------------------------------------------------------------------ C22
\* every parameter that f holds is the one response r carries
OriginatesFrom(f, r) ==
    /\ r.algolia
    /\ f.app_id # "" => f.app_id = r.app_id
    /\ f.api_key # "" => f.api_key = r.api_key
    /\ f.container_id # 0 => r.json /\ f.container_id = find_container_id(r.payload)
    /\ f.index_name # "" => r.json /\ f.index_name = find_index_name_from_hits(r.payload)

\* C22: the parameters sniff_algolia_from_url returns all originate from one single
\* observed response: never credentials of one response with the index name or the
\* container id of another.
C22_ParametersFromOneResponse ==
    pc \notin {"start", "sniff"} =>
        \/ found = NoneFound
        \/ \E r \in SniffResponses : OriginatesFrom(found, r)

\* ------------------------------------------------------------------ C23
\* requests.get raised, or answered with a status >= 400
StaticFetchFailed == static_page.kind \in {"neterr", "http"}

\* C23: when the fetch of scrape_static_html fails (network error, timeout, HTTP
\* status >= 400) the driver returns zero rows with supported=False and either the
\* error text or the status with a body preview of at most PreviewLimit characters,
\* and scrape_any goes on to the next driver: it has neither returned nor raised
\* before scrape_with_playwright is called.
C23_StaticFailureIsNotFatal ==
    (Len(res) >= 2 /\ StaticFetchFailed) =>
        /\ res[2] = <<>>
        /\ metas[2].driver = "static_html"
        /\ metas[2].supported = FALSE
        /\ static_page.kind = "neterr" => "error" \in DOMAIN metas[2]
        /\ static_page.kind = "http" =>
              /\ metas[2].http_status = static_page.status
              /\ metas[2].body_preview_len <= PreviewLimit
              /\ metas[2].body_preview_len <= static_page.len
        /\ apc \in {"playwright", "playwright_open", "done"}
        /\ apc # "done" => ret = NotReturned
        /\ apc = "done" => calls = DriverOrder

\* the page answered 404 or 503 with a body longer than the preview, and Playwright's
\* rows were returned
C23_Witness ==
    /\ apc = "done"
    /\ calls = DriverOrder
    /\ static_page.kind = "http"
    /\ static_page.len > PreviewLimit
    /\ ret.status = "returned"
    /\ ret.rows # <<>>

\* requests.get raised, and scrape_any went on to Playwright
C23_WitnessNetworkError ==
    /\ calls = DriverOrder
    /\ static_page.kind = "neterr"
    /\ ret.status = "returned"

====
